---- MODULE Spec2Model ----
(***************************************************************************)
(* The AuraInstance reconciler of neo4j-aura-controller as a state machine. *)
(*                                                                         *)
(* One desired-state record (an AuraInstance) lives in the Kubernetes      *)
(* store next to the secrets of its namespace; the Aura API holds the      *)
(* remote instances of the tenant.  A reconciliation pass                  *)
(* (AuraInstanceReconciler.Reconcile) is a sequence of steps, one per      *)
(* blocking call of the code; everything the code does between two         *)
(* blocking calls belongs to the step of the first one.  Between the steps *)
(* of a pass the user, the remote side and other writers of secrets act;   *)
(* an environment step is taken where the pass is about to observe it      *)
(* (a change of the remote instance right before the call that reads it),  *)
(* which loses no behaviour of the pass, and a run holds at most MaxEnv    *)
(* environment steps, failing calls included.                              *)
(*                                                                         *)
(* Strings that the code formats are tuples of their parts                 *)
(* (fmt.Sprintf("%s-connection", n) is <<n, "-connection">>); the empty    *)
(* string is the empty tuple for names and messages and 0 for instance     *)
(* ids and durations.  Responses of the Aura API are well-formed           *)
(* (section 6 of the specification): a 200/202 body carries every field.   *)
(* The record exists for the whole run; its deletion is not modelled.      *)
(***************************************************************************)
EXTENDS Integers, Sequences, FiniteSets, TLC

\* ---------------------------------------------------------------- bounds
MaxEnv == 2      \* environment steps in a run: edits, remote changes, foreign secrets, failing calls
MaxPre == 2      \* remote instances that exist before the record does

\* ------------------------------------------------------- names and values
Name            == "db"            \* metadata.name of the record
OtherName       == "DB"            \* a remote name differing only in case
UID             == "uid-db"        \* metadata.uid of the record
OtherUID        == "uid-other"     \* uid of some other object
CredSecretName  == <<"creds">>     \* spec.secret.name
CustomConnName  == <<"custom">>    \* a spec.connectionSecret.name override
Interval        == 600             \* a declared spec.interval, in seconds
RecordTimeout   == 5               \* a declared spec.timeout, in seconds
ProcessTimeout  == 0               \* Timeout of the process's http.Client: none is set
Body            == "error"         \* body of a rejected request
ApiError        == <<"api error">> \* a failure of a Kubernetes API call
TransportError  == <<"transport error">>

Absent == [absent |-> TRUE]        \* no secret of that name
NoInstance == [absent |-> TRUE]    \* no response body
NoObject == [absent |-> TRUE]      \* no copy of the record
nil == <<>>                        \* Go's nil error / the empty string

Memories == {"1GB", "2GB"}
Statuses == {"creating", "running", "paused"}

ConditionReady       == "Ready"
ConditionReconciling == "Reconciling"

StatusOK       == 200
StatusAccepted == 202
StatusNotFound == 404
StatusError    == 500

FixedDelay == 30

\* ------------------------------------------------------------- variables
VARIABLES
  object,      \* the stored AuraInstance: spec, generation, resourceVersion, status
  secrets,     \* the secrets of the namespace, by name
  remote,      \* the Aura API's instances of the tenant, in list order
  nextId,      \* the next instance id the Aura API hands out
  peer,        \* status.instanceID of the record of the same name in another namespace
  env,         \* the environment steps taken so far
  pc,          \* the blocking call the running pass is about to make, "done", or "idle"
  instance,    \* the pass's in-memory copy of the record
  start,       \* the record as the pass read it
  secret,      \* the connection secret the pass fetched for cleanup
  auraInstance,\* the body of the last get/create response of the pass
  listed,      \* the body of the list response of the pass
  latest,      \* the record as patchStatus re-read it
  result,      \* the ctrl.Result the pass returns
  err,         \* the error of reconcile() in the pass
  outcome,     \* how the pass ended, once pc is "done"
  log          \* the calls of the pass and their results, in order

vars == <<object, secrets, remote, nextId, peer, env, pc, instance, start, secret,
          auraInstance, listed, latest, result, err, outcome, log>>

locals == <<instance, start, secret, auraInstance, listed, latest, result,
            err, outcome, log>>

store == <<object, secrets, remote, nextId>>

\* ------------------------------------------------------------ data model
\* AuraInstanceSpec (the fields the reconciler reads)
DefaultSpec ==
  [suspend |-> FALSE, memory |-> "1GB", vectorOptimized |-> FALSE,
   graphAnalyticsPlugin |-> FALSE, connectionSecret |-> nil, interval |-> 0,
   timeout |-> 0,
   secret |-> [name |-> CredSecretName, clientIDKey |-> "", clientSecretKey |-> ""]]

\* AuraInstanceStatus of a new record
EmptyStatus ==
  [conditions |-> <<>>, observedGeneration |-> 0, instanceID |-> 0,
   connectionSecret |-> nil, instanceStatus |-> ""]

StatusFields == DOMAIN EmptyStatus

NoResult == [Requeue |-> FALSE, RequeueAfter |-> 0]

\* the credentials secret, as the tests create it
ValidCredentials   == [owners |-> <<>>, data |-> [clientID |-> "id", clientSecret |-> "secret"]]
MissingCredentials == [owners |-> <<>>, data |-> [clientID |-> "id"]]

\* a remote instance: what a create or patch request with this spec makes of it
RemoteInstance(id, name, status, spec) ==
  [id |-> id, name |-> name, status |-> status, memory |-> spec.memory,
   vectorOptimized |-> spec.vectorOptimized,
   graphAnalyticsPlugin |-> spec.graphAnalyticsPlugin]

\* JSON202.Data of a create response: the id and the generated credentials
CreateResponse(id) ==
  [id |-> id, username |-> <<"user", id>>, password |-> <<"password", id>>,
   connectionUrl |-> <<"url", id>>]

Event(op, res) == [op |-> op, res |-> res]

\* ------------------------------------------------------------ conditions
\* conditions.Delete: drops the conditions of a type
DeleteCondition(conds, type) == SelectSeq(conds, LAMBDA c: c.type # type)

\* setResourceCondition: replaces the condition of the type in place, or appends it
setResourceCondition(conds, type, status, reason, message, generation) ==
  LET new == [type |-> type, status |-> status, reason |-> reason,
              message |-> message, observedGeneration |-> generation]
  IN IF \E i \in 1..Len(conds): conds[i].type = type
       THEN [i \in 1..Len(conds) |-> IF conds[i].type = type THEN new ELSE conds[i]]
       ELSE Append(conds, new)

AuraInstanceReconciling(set, status, reason, message) ==
  [set EXCEPT !.status.conditions =
     setResourceCondition(@, ConditionReconciling, status, reason, message, set.generation)]

AuraInstanceReady(set, status, reason, message) ==
  [set EXCEPT !.status.conditions =
     setResourceCondition(@, ConditionReady, status, reason, message, set.generation)]

\* ------------------------------------------------------- pure helpers
\* a name of the connection secret that ignores the override of the record
ConnectionSecretNameDefault(inst) == <<Name, "-connection">>

\* connectionSecretName of reconcile()
ConnectionSecretName(inst) ==
  IF inst.spec.connectionSecret # nil THEN inst.spec.connectionSecret
  ELSE <<Name, "-connection">>

\* a secret key choice that ignores the override
ClientSecretKeyDefault(inst) == "clientSecret"

ClientIDKey(inst) ==
  IF inst.spec.secret.clientIDKey = "" THEN "clientID" ELSE inst.spec.secret.clientIDKey

ClientSecretKey(inst) ==
  IF inst.spec.secret.clientSecretKey = "" THEN "clientSecret" ELSE inst.spec.secret.clientSecretKey

\* string(secret.Data[key]): the empty string for a missing key
DataValue(sec, key) == IF key \in DOMAIN sec.data THEN sec.data[key] ELSE ""

\* an httpClient() whose message names the default keys
HttpClientErrorDefaultNames(inst, ApiFails) ==
  LET sec == secrets[inst.spec.secret.name] IN
  IF ApiFails THEN <<"failed to get secret", ApiError>>
  ELSE IF sec = Absent
    THEN <<"failed to get secret", <<"Secret", inst.spec.secret.name, "not found">>>>
  ELSE IF DataValue(sec, ClientIDKey(inst)) = "" \/ DataValue(sec, ClientSecretKey(inst)) = ""
    THEN <<"secret must contain", "clientID", "and", "clientSecret", "keys">>
  ELSE nil

\* an httpClient() that ignores the error of the lookup and reads the empty secret
HttpClientErrorUnchecked(inst, ApiFails) ==
  LET sec == secrets[inst.spec.secret.name] IN
  IF ApiFails \/ sec = Absent
    THEN <<"secret must contain", ClientIDKey(inst), "and", ClientSecretKey(inst), "keys">>
  ELSE IF DataValue(sec, ClientIDKey(inst)) = "" \/ DataValue(sec, ClientSecretKey(inst)) = ""
    THEN <<"secret must contain", ClientIDKey(inst), "and", ClientSecretKey(inst), "keys">>
  ELSE nil

\* an httpClient() that takes the values of the secret as they are, empty or not
HttpClientErrorAcceptsEmpty(inst, ApiFails) ==
  LET sec == secrets[inst.spec.secret.name] IN
  IF ApiFails THEN <<"failed to get secret", ApiError>>
  ELSE IF sec = Absent
    THEN <<"failed to get secret", <<"Secret", inst.spec.secret.name, "not found">>>>
  ELSE nil

\* the error of httpClient(), nil when the credentials resolve
HttpClientError(inst, ApiFails) ==
  LET sec == secrets[inst.spec.secret.name] IN
  IF ApiFails THEN <<"failed to get secret", ApiError>>
  ELSE IF sec = Absent
    THEN <<"failed to get secret", <<"Secret", inst.spec.secret.name, "not found">>>>
  ELSE IF DataValue(sec, ClientIDKey(inst)) = "" \/ DataValue(sec, ClientSecretKey(inst)) = ""
    THEN <<"secret must contain", ClientIDKey(inst), "and", ClientSecretKey(inst), "keys">>
  ELSE nil

\* the Timeout of the http.Client httpClient() returns for the pass
ClientTimeout(inst) == ProcessTimeout

\* how the lookup of httpClient() ended, for the log
HttpClientResult(inst, ApiFails) ==
  LET e == HttpClientError(inst, ApiFails) IN
  IF e = nil THEN "ok"
  ELSE IF ApiFails THEN "error"
  ELSE IF secrets[inst.spec.secret.name] = Absent THEN "notfound"
  ELSE "invalid"

\* a drift test that looks at the memory only
DriftMemoryOnly(inst, data) == inst.spec.memory # data.memory

\* the drift test of reconcile()
Drift(inst, data) ==
  \/ inst.spec.memory # data.memory
  \/ inst.spec.graphAnalyticsPlugin # data.graphAnalyticsPlugin
  \/ inst.spec.vectorOptimized # data.vectorOptimized

\* a scan for the record's name that skips the element it starts at
FirstMatchSkipsOne(list, i) ==
  LET later == {j \in (i + 1)..Len(list) : Name = list[j].name} IN
  IF later = {} THEN 0 ELSE CHOOSE j \in later : \A k \in later : j <= k

\* a scan that compares the names without regard to case
FirstMatchFoldsCase(list, i) ==
  LET matches == {j \in i..Len(list) : list[j].name \in {Name, OtherName}} IN
  IF matches = {} THEN 0 ELSE CHOOSE j \in matches : \A k \in matches : j <= k

\* the index of the first listed instance with the record's name, 0 if none
RECURSIVE FirstMatch(_, _)
FirstMatch(list, i) ==
  IF i > Len(list) THEN 0
  ELSE IF Name = list[i].name THEN i
  ELSE FirstMatch(list, i + 1)

\* a classification that leaves the Reconciling condition of a running instance
ClassifyKeepsReconciling(inst, data) ==
  LET st == [inst EXCEPT !.status.instanceStatus = data.status] IN
  CASE data.status = "running" ->
         AuraInstanceReady(st, "True", "InstanceRunning", <<"Instance is running">>)
    [] data.status = "creating" ->
         AuraInstanceReconciling(st, "True", "InstanceCreating", <<"Instance is being created">>)
    [] OTHER ->
         AuraInstanceReady(st, "False", "InstanceNotReady", <<"Instance status: ", data.status>>)

\* a classification that takes creating for a status that is not ready
ClassifyCreatingNotReady(inst, data) ==
  LET st == [inst EXCEPT !.status.instanceStatus = data.status] IN
  CASE data.status = "running" ->
         AuraInstanceReady(
           [st EXCEPT !.status.conditions = DeleteCondition(@, ConditionReconciling)],
           "True", "InstanceRunning", <<"Instance is running">>)
    [] OTHER ->
         AuraInstanceReady(st, "False", "InstanceNotReady", <<"Instance status: ", data.status>>)

\* a classification that does not know the status running
ClassifyRunningNotReady(inst, data) ==
  LET st == [inst EXCEPT !.status.instanceStatus = data.status] IN
  CASE data.status = "creating" ->
         AuraInstanceReconciling(st, "True", "InstanceCreating", <<"Instance is being created">>)
    [] OTHER ->
         AuraInstanceReady(st, "False", "InstanceNotReady", <<"Instance status: ", data.status>>)

\* the status classification of reconcile() on a 200 get response
Classify(inst, data) ==
  LET st == [inst EXCEPT !.status.instanceStatus = data.status] IN
  CASE data.status = "running" ->
         AuraInstanceReady(
           [st EXCEPT !.status.conditions = DeleteCondition(@, ConditionReconciling)],
           "True", "InstanceRunning", <<"Instance is running">>)
    [] data.status = "creating" ->
         AuraInstanceReconciling(st, "True", "InstanceCreating", <<"Instance is being created">>)
    [] OTHER ->
         AuraInstanceReady(st, "False", "InstanceNotReady", <<"Instance status: ", data.status>>)

\* a Reconcile() that records the failure but not the generation
AfterReconcileKeepsGeneration(inst, e) ==
  IF e # nil THEN AuraInstanceReady(inst, "False", "ReconciliationFailed", e) ELSE inst

\* a Reconcile() that reports every failure with one fixed message
AfterReconcileFixedMessage(inst, e) ==
  LET og == [inst EXCEPT !.status.observedGeneration = inst.generation] IN
  IF e # nil THEN AuraInstanceReady(og, "False", "ReconciliationFailed", <<"reconcile failed">>)
  ELSE og

\* a Reconcile() that records the generation but no failure condition
AfterReconcileNoCondition(inst, e) ==
  [inst EXCEPT !.status.observedGeneration = inst.generation]

\* Reconcile() after reconcile() returned: observedGeneration and the failure condition
AfterReconcile(inst, e) ==
  LET og == [inst EXCEPT !.status.observedGeneration = inst.generation] IN
  IF e # nil THEN AuraInstanceReady(og, "False", "ReconciliationFailed", e) ELSE og

\* a suspend test that never holds
NeverSuspended(inst) == FALSE

\* the suspend test of Reconcile()
Suspended(inst) == inst.spec.suspend

\* an owner test that accepts every secret
OwnerNeverChecked(sec) == FALSE

\* the owner test of reconcile() before it deletes the connection secret
OwnerMismatch(sec) == Len(sec.owners) > 0 /\ sec.owners[1] # UID

\* a cleanup that forgets the instance id
ClearSecretNameOnly(inst) == [inst EXCEPT !.status.connectionSecret = nil]

\* the status fields reconcile() clears after a 404
ClearBinding(inst) ==
  [inst EXCEPT !.status.instanceID = 0, !.status.connectionSecret = nil]

\* a create path that records the secret's name but not the instance id
BindNameOnly(inst, id) ==
  [inst EXCEPT !.status.connectionSecret = ConnectionSecretName(inst)]

\* the status fields reconcile() sets once the create request is accepted
Bind(inst, id) ==
  [inst EXCEPT !.status.instanceID = id,
               !.status.connectionSecret = ConnectionSecretName(inst)]

\* a status test that takes every answer to the create request for an acceptance
CreateAcceptedAny(code) == TRUE

\* the status test of reconcile() on the create response
CreateAccepted(code) == code = StatusAccepted

\* a status test that takes every answer to the get request for a 200
GetRejectedNever(code) == FALSE

\* the status test of reconcile() on the get response, after the 404 test
GetRejected(code) == code # StatusOK

\* a write of the connection secret that replaces an existing one
CreateOrUpdate(name) == TRUE

\* r.Create of a secret: the store accepts it only under a free name
CanCreate(name) == secrets[name] = Absent

\* a Reconcile() that returns the declared interval after a failed pass too
WithIntervalAlways(inst, res, e) ==
  IF inst.spec.interval # 0 THEN [res EXCEPT !.RequeueAfter = inst.spec.interval] ELSE res

\* the result Reconcile() returns once the status is written: the declared
\* interval replaces RequeueAfter of a pass without error
WithInterval(inst, res, e) ==
  IF e = nil /\ inst.spec.interval # 0
    THEN [res EXCEPT !.RequeueAfter = inst.spec.interval]
    ELSE res

\* the JSON merge patch client.MergeFrom(latest) makes for the status of inst
MergePatch(lat, inst) ==
  [f \in {g \in StatusFields : lat.status[g] # inst.status[g]} |-> inst.status[f]]

ApplyPatch(status, patch) ==
  [f \in StatusFields |-> IF f \in DOMAIN patch THEN patch[f] ELSE status[f]]

\* the indexes of the remote instances with an id
RemoteIndex(id) == {i \in 1..Len(remote) : remote[i].id = id}

RemoveAt(s, i) == [j \in 1..(Len(s) - 1) |-> IF j < i THEN s[j] ELSE s[j + 1]]

\* ------------------------------------------------------------------ Init
\* the lists of instances the tenant may hold before the record exists
RECURSIVE InitialRemotes(_)
InitialRemotes(n) ==
  IF n = 0 THEN {<<>>}
  ELSE LET shorter == InitialRemotes(n - 1) IN
       shorter \cup
       {Append(l, RemoteInstance(Len(l) + 1, nm, "running", DefaultSpec)) :
          l \in {s \in shorter : Len(s) = n - 1}, nm \in {Name, OtherName}}

SecretNames == {CredSecretName, CustomConnName, <<Name, "-connection">>}

\* the values of the pass's variables while no pass runs
NoPass ==
  /\ instance = NoObject
  /\ start = NoObject
  /\ latest = NoObject
  /\ secret = Absent
  /\ auraInstance = NoInstance
  /\ listed = <<>>
  /\ result = NoResult
  /\ err = nil
  /\ outcome = "none"
  /\ log = <<>>

Init ==
  /\ object = [spec |-> DefaultSpec, generation |-> 1, resourceVersion |-> 0,
               status |-> EmptyStatus]
  /\ \E cred \in {Absent, ValidCredentials, MissingCredentials} :
       secrets = [n \in SecretNames |-> IF n = CredSecretName THEN cred ELSE Absent]
  /\ remote \in InitialRemotes(MaxPre)
  /\ nextId = Len(remote) + 1
  /\ env = 0
  /\ pc = "idle"
  /\ NoPass
  /\ peer = 0

\* ------------------------------------------------------------ the pass
\* whether a Kubernetes API call may fail now, and what a remote call may answer
ApiFailures == IF env < MaxEnv THEN BOOLEAN ELSE {FALSE}
Codes(answers) == IF env < MaxEnv THEN answers \cup {0, StatusError} ELSE answers
Failed(failure) == env' = IF failure THEN env + 1 ELSE env

\* reconcile() returned (inst, res, e): Reconcile() goes on to patchStatus
EndReconcile(inst, res, e) ==
  /\ instance' = AfterReconcile(inst, e)
  /\ result' = res
  /\ err' = e
  /\ pc' = "patchStatusGet"

\* a Reconcile() that stamps observedGeneration on the stored record as it reads it
ReconcileStampsGeneration ==
  /\ pc = "idle"
  /\ object' = [object EXCEPT !.resourceVersion = 0,
                              !.status.observedGeneration = object.generation]
  /\ instance' = object'
  /\ start' = object'
  /\ log' = <<Event("Get", "ok")>>
  /\ IF Suspended(object)
       THEN pc' = "done" /\ outcome' = "suspended"
       ELSE pc' = "httpClient" /\ outcome' = "running"
  /\ UNCHANGED <<secrets, remote, nextId, env, secret, auraInstance, listed,
                 latest, result, err>>
  /\ UNCHANGED peer

\* Reconcile(): r.Get of the record and the suspend test.  resourceVersion counts
\* the writes since this read: only its equality between copies matters.
Reconcile ==
  /\ pc = "idle"
  /\ object' = [object EXCEPT !.resourceVersion = 0]
  /\ instance' = object'
  /\ start' = object'
  /\ log' = <<Event("Get", "ok")>>
  /\ IF Suspended(object)
       THEN pc' = "done" /\ outcome' = "suspended"
       ELSE pc' = "httpClient" /\ outcome' = "running"
  /\ UNCHANGED <<secrets, remote, nextId, env, secret, auraInstance, listed,
                 latest, result, err>>
  /\ UNCHANGED peer

\* reconcile(): httpClient() and the branch on status.instanceID
HttpClient ==
  /\ pc = "httpClient"
  /\ \E ApiFails \in ApiFailures :
       LET e == HttpClientError(instance, ApiFails) IN
       /\ Failed(ApiFails)
       /\ log' = Append(log, Event("GetCredentials", HttpClientResult(instance, ApiFails)))
       /\ IF e # nil
            THEN EndReconcile(instance, NoResult, e)
            ELSE /\ pc' = IF instance.status.instanceID # 0 THEN "GetInstanceId"
                                                              ELSE "GetInstances"
                 /\ UNCHANGED <<instance, result, err>>
  /\ UNCHANGED <<store, start, secret, auraInstance, listed, latest, outcome>>
  /\ UNCHANGED peer

\* reconcile(): GetInstanceIdWithResponse, the classification and the drift test
GetInstanceId ==
  /\ pc = "GetInstanceId"
  /\ \E code \in Codes({StatusOK, StatusNotFound}) :
       /\ code = StatusOK => RemoteIndex(instance.status.instanceID) # {}
       /\ code = StatusNotFound => RemoteIndex(instance.status.instanceID) = {}
       /\ Failed(code \in {0, StatusError})
       /\ log' = Append(log, Event("GetInstanceId", code))
       /\ IF code = 0
            THEN /\ EndReconcile(instance, NoResult, TransportError)
                 /\ UNCHANGED auraInstance
            ELSE IF code = StatusNotFound
              THEN /\ pc' = "GetSecret"
                   /\ UNCHANGED <<instance, result, err, auraInstance>>
            ELSE IF GetRejected(code)
              THEN /\ EndReconcile(instance, NoResult,
                        <<"failed to get instance, request failed with code", code, Body>>)
                   /\ UNCHANGED auraInstance
            ELSE \E i \in RemoteIndex(instance.status.instanceID) :
                   LET data == remote[i]
                       classified == Classify(instance, data)
                   IN
                   /\ auraInstance' = data
                   /\ IF data.status = "creating"
                        THEN EndReconcile(classified,
                               [Requeue |-> FALSE, RequeueAfter |-> FixedDelay], nil)
                        ELSE IF Drift(instance, data)
                          THEN /\ instance' = AuraInstanceReconciling(classified, "True",
                                      "UpdatingInstance", <<"Updating Aura instance">>)
                               /\ pc' = "PatchInstanceId"
                               /\ UNCHANGED <<result, err>>
                          ELSE EndReconcile(classified, NoResult, nil)
  /\ UNCHANGED <<store, start, secret, listed, latest, outcome>>
  /\ UNCHANGED peer

\* reconcile(): the lookup of the connection secret after a 404 and the owner test
GetSecret ==
  /\ pc = "GetSecret"
  /\ \E ApiFails \in ApiFailures :
       LET found == secrets[ConnectionSecretName(instance)] IN
       /\ Failed(ApiFails)
       /\ IF ApiFails
            THEN /\ log' = Append(log, Event("GetSecret", "error"))
                 /\ EndReconcile(instance, NoResult, <<"failed to get secret", ApiError>>)
                 /\ UNCHANGED secret
            ELSE IF found = Absent
              THEN /\ log' = Append(log, Event("GetSecret", "notfound"))
                   /\ EndReconcile(ClearBinding(instance),
                                   [Requeue |-> TRUE, RequeueAfter |-> 0], nil)
                   /\ UNCHANGED secret
              ELSE /\ log' = Append(log, Event("GetSecret", "ok"))
                   /\ secret' = found
                   /\ IF OwnerMismatch(found)
                        THEN EndReconcile(instance, NoResult,
                               <<"failed to delete secret, owner uid does not match",
                                 found.owners[1]>>)
                        ELSE /\ pc' = "DeleteSecret"
                             /\ UNCHANGED <<instance, result, err>>
  /\ UNCHANGED <<store, start, auraInstance, listed, latest, outcome>>
  /\ UNCHANGED peer

\* reconcile(): r.Delete of the connection secret and the clearing of the status
DeleteSecret ==
  /\ pc = "DeleteSecret"
  /\ \E ApiFails \in ApiFailures :
       LET name == ConnectionSecretName(instance) IN
       /\ Failed(ApiFails)
       /\ IF ApiFails \/ secrets[name] = Absent
            THEN /\ log' = Append(log, Event("DeleteSecret", "error"))
                 /\ EndReconcile(instance, NoResult,
                      <<"failed to delete secret",
                        IF ApiFails THEN ApiError ELSE <<"not found">>>>)
                 /\ UNCHANGED secrets
            ELSE /\ log' = Append(log, Event("DeleteSecret", "ok"))
                 /\ secrets' = [secrets EXCEPT ![name] = Absent]
                 /\ EndReconcile(ClearBinding(instance),
                                 [Requeue |-> TRUE, RequeueAfter |-> 0], nil)
  /\ UNCHANGED <<object, remote, nextId, start, secret, auraInstance, listed,
                 latest, outcome>>
  /\ UNCHANGED peer

\* reconcile(): PatchInstanceIdWithResponse
PatchInstanceId ==
  /\ pc = "PatchInstanceId"
  /\ \E code \in Codes({StatusAccepted, StatusNotFound}) :
       /\ code = StatusAccepted => RemoteIndex(instance.status.instanceID) # {}
       /\ code = StatusNotFound => RemoteIndex(instance.status.instanceID) = {}
       /\ Failed(code \in {0, StatusError})
       /\ log' = Append(log, Event("PatchInstanceId", code))
       /\ CASE code = 0 ->
                 /\ EndReconcile(instance, NoResult,
                      <<"failed to update instance", TransportError>>)
                 /\ UNCHANGED remote
            [] code = StatusAccepted ->
                 /\ remote' = [i \in 1..Len(remote) |->
                      IF remote[i].id = instance.status.instanceID
                        THEN RemoteInstance(remote[i].id, remote[i].name, remote[i].status,
                                            instance.spec)
                        ELSE remote[i]]
                 /\ EndReconcile(instance, NoResult, nil)
            [] OTHER ->
                 /\ EndReconcile(instance, NoResult,
                      <<"failed to update instance, request failed with code", code, Body>>)
                 /\ UNCHANGED remote
  /\ UNCHANGED <<object, secrets, nextId, start, secret, auraInstance, listed,
                 latest, outcome>>
  /\ UNCHANGED peer

\* reconcile(): GetInstancesWithResponse and the adoption by name
GetInstances ==
  /\ pc = "GetInstances"
  /\ \E code \in Codes({StatusOK}) :
       /\ Failed(code \in {0, StatusError})
       /\ log' = Append(log, Event("GetInstances", code))
       /\ CASE code = 0 ->
                 /\ EndReconcile(instance, NoResult, TransportError)
                 /\ UNCHANGED listed
            [] code = StatusError ->
                 /\ EndReconcile(instance, NoResult,
                      <<"failed to get instance list, request failed with code", code, Body>>)
                 /\ UNCHANGED listed
            [] code = StatusOK ->
                 /\ listed' = remote
                 /\ IF FirstMatch(remote, 1) # 0
                      THEN EndReconcile(
                             [instance EXCEPT !.status.instanceID =
                                                 remote[FirstMatch(remote, 1)].id],
                             [Requeue |-> TRUE, RequeueAfter |-> 0], nil)
                      ELSE /\ instance' = AuraInstanceReconciling(instance, "True",
                                  "CreatingInstance", <<"Creating new Aura instance">>)
                           /\ pc' = "PostInstances"
                           /\ UNCHANGED <<result, err>>
  /\ UNCHANGED <<store, start, secret, auraInstance, latest, outcome>>
  /\ UNCHANGED peer

\* reconcile(): PostInstancesWithResponse and the status fields of the new instance
PostInstances ==
  /\ pc = "PostInstances"
  /\ \E code \in Codes({StatusAccepted}) :
       /\ Failed(code \in {0, StatusError})
       /\ log' = Append(log, Event("PostInstances", code))
       /\ IF code = StatusAccepted
            THEN /\ remote' = Append(remote,
                                     RemoteInstance(nextId, Name, "creating", instance.spec))
                 /\ nextId' = nextId + 1
            ELSE UNCHANGED <<remote, nextId>>
       /\ IF code = 0
            THEN /\ EndReconcile(instance, NoResult,
                      <<"failed to create the instance", TransportError>>)
                 /\ UNCHANGED auraInstance
            ELSE IF ~CreateAccepted(code)
              THEN /\ EndReconcile(instance, NoResult,
                        <<"failed to create the instance, request failed with code", code, Body>>)
                   /\ UNCHANGED auraInstance
              ELSE /\ auraInstance' = CreateResponse(nextId)
                   /\ instance' = Bind(instance, nextId)
                   /\ pc' = "CreateSecret"
                   /\ UNCHANGED <<result, err>>
  /\ UNCHANGED <<object, secrets, start, secret, listed, latest, outcome>>
  /\ UNCHANGED peer

\* the connectionDetails secret of reconcile()
ConnectionDetails(inst, data) ==
  [owners |-> <<UID>>,
   data |-> [username |-> data.username, password |-> data.password,
             connectionURL |-> data.connectionUrl]]

\* reconcile(): r.Create of the connection secret
CreateSecret ==
  /\ pc = "CreateSecret"
  /\ \E ApiFails \in ApiFailures :
       LET name == ConnectionSecretName(instance) IN
       /\ Failed(ApiFails)
       /\ IF ApiFails \/ ~CanCreate(name)
            THEN /\ log' = Append(log, Event("CreateSecret", "error"))
                 /\ EndReconcile(instance, NoResult,
                      <<"failed to create connection secret",
                        IF ApiFails THEN ApiError ELSE <<"already exists">>>>)
                 /\ UNCHANGED secrets
            ELSE /\ log' = Append(log, Event("CreateSecret", "ok"))
                 /\ secrets' = [secrets EXCEPT ![name] = ConnectionDetails(instance, auraInstance)]
                 /\ EndReconcile(instance, [Requeue |-> FALSE, RequeueAfter |-> FixedDelay], nil)
  /\ UNCHANGED <<object, remote, nextId, start, secret, auraInstance, listed,
                 latest, outcome>>
  /\ UNCHANGED peer

\* patchStatus(): r.Get of the latest record
PatchStatusGet ==
  /\ pc = "patchStatusGet"
  /\ \E ApiFails \in ApiFailures :
       /\ Failed(ApiFails)
       /\ IF ApiFails
            THEN /\ log' = Append(log, Event("GetLatest", "error"))
                 /\ pc' = "done"
                 /\ outcome' = "statusfailed"
                 /\ result' = [Requeue |-> TRUE, RequeueAfter |-> 0]
                 /\ UNCHANGED latest
            ELSE /\ log' = Append(log, Event("GetLatest", "ok"))
                 /\ latest' = object
                 /\ pc' = "patchStatusPatch"
                 /\ UNCHANGED <<outcome, result>>
  /\ UNCHANGED <<store, instance, start, secret, auraInstance, listed, err>>
  /\ UNCHANGED peer

\* patchStatus(): r.Status().Patch with client.MergeFrom(latest), and the
\* interval of Reconcile().  The patch carries metadata.resourceVersion when
\* the pass's copy and latest differ in it, and the API server then refuses it.
PatchStatusPatch ==
  /\ pc = "patchStatusPatch"
  /\ \E ApiFails \in ApiFailures :
       /\ Failed(ApiFails)
       /\ IF ApiFails \/ instance.resourceVersion # latest.resourceVersion
            THEN /\ log' = Append(log, Event("PatchStatus",
                                             IF ApiFails THEN "error" ELSE "conflict"))
                 /\ outcome' = "statusfailed"
                 /\ result' = [Requeue |-> TRUE, RequeueAfter |-> 0]
                 /\ UNCHANGED object
            ELSE /\ log' = Append(log, Event("PatchStatus", "ok"))
                 /\ object' = [object EXCEPT
                                 !.status = ApplyPatch(@, MergePatch(latest, instance)),
                                 !.resourceVersion = @ + 1]
                 /\ outcome' = "completed"
                 /\ result' = WithInterval(instance, result, err)
  /\ pc' = "done"
  /\ UNCHANGED <<secrets, remote, nextId, instance, start, secret, auraInstance,
                 listed, latest, err>>
  /\ UNCHANGED peer

\* Reconcile() returns its result to the dispatcher; the pass's variables are gone
Return ==
  /\ pc = "done"
  /\ pc' = "idle"
  /\ instance' = NoObject
  /\ start' = NoObject
  /\ latest' = NoObject
  /\ secret' = Absent
  /\ auraInstance' = NoInstance
  /\ listed' = <<>>
  /\ result' = NoResult
  /\ err' = nil
  /\ outcome' = "none"
  /\ log' = <<>>
  /\ UNCHANGED <<store, env>>
  /\ UNCHANGED peer

\* ------------------------------------------------------- the environment
\* the user edits one field of the spec; the store bumps the generation
EditSpec(s) ==
  \/ s = [object.spec EXCEPT !.suspend = ~@]
  \/ s = [object.spec EXCEPT !.connectionSecret = IF @ = nil THEN CustomConnName ELSE nil]
  \/ s = [object.spec EXCEPT !.interval = IF @ = 0 THEN Interval ELSE 0]

Specs ==
  [suspend : BOOLEAN, memory : Memories, vectorOptimized : BOOLEAN,
   graphAnalyticsPlugin : BOOLEAN, connectionSecret : {nil, CustomConnName},
   interval : {0, Interval}, timeout : {0, RecordTimeout},
   secret : {DefaultSpec.secret}]

UserEdit ==
  /\ env < MaxEnv
  /\ pc \in {"idle", "patchStatusGet", "patchStatusPatch"}
  /\ \E s \in Specs :
       /\ EditSpec(s)
       /\ object' = [object EXCEPT !.spec = s, !.generation = @ + 1,
                                   !.resourceVersion = @ + 1]
  /\ env' = env + 1
  /\ UNCHANGED <<secrets, remote, nextId, pc, locals>>
  /\ UNCHANGED peer

\* a condition another writer of the status sets
ExternalCondition ==
  [type |-> "External", status |-> "True", reason |-> "Other", message |-> nil,
   observedGeneration |-> 0]

\* another writer patches the status of the record while patchStatus() runs
StatusEdit ==
  /\ env < MaxEnv
  /\ pc \in {"patchStatusGet", "patchStatusPatch"}
  /\ \A i \in 1..Len(object.status.conditions) :
       object.status.conditions[i] # ExternalCondition
  /\ object' = [object EXCEPT !.status.conditions = Append(@, ExternalCondition),
                              !.resourceVersion = @ + 1]
  /\ env' = env + 1
  /\ UNCHANGED <<secrets, remote, nextId, pc, locals>>
  /\ UNCHANGED peer

\* a remote instance is deleted out of band
RemoteDelete ==
  /\ env < MaxEnv
  /\ \E i \in 1..Len(remote) :
       /\ \/ pc = "GetInstances"
          \/ pc \in {"GetInstanceId", "PatchInstanceId"} /\ remote[i].id = instance.status.instanceID
       /\ remote' = RemoveAt(remote, i)
  /\ env' = env + 1
  /\ UNCHANGED <<object, secrets, nextId, pc, locals>>
  /\ UNCHANGED peer

\* the remote instance changes its lifecycle state or one field of its configuration
RemoteChange ==
  /\ env < MaxEnv
  /\ pc = "GetInstanceId"
  /\ \E i \in RemoteIndex(instance.status.instanceID) :
       \/ \E s \in Statuses \ {remote[i].status} : remote' = [remote EXCEPT ![i].status = s]
       \/ \E m \in Memories \ {remote[i].memory} : remote' = [remote EXCEPT ![i].memory = m]
       \/ remote' = [remote EXCEPT ![i].vectorOptimized = ~@]
       \/ remote' = [remote EXCEPT ![i].graphAnalyticsPlugin = ~@]
  /\ env' = env + 1
  /\ UNCHANGED <<object, secrets, nextId, pc, locals>>
  /\ UNCHANGED peer

\* another writer creates a secret under the name of the connection secret
ExternalSecrets ==
  {[owners |-> o, data |-> [username |-> <<"external">>]] : o \in {<<>>, <<OtherUID>>}}

SecretCreated ==
  /\ env < MaxEnv
  /\ pc \in {"GetSecret", "CreateSecret"}
  /\ \E s \in ExternalSecrets :
       /\ secrets[ConnectionSecretName(instance)] = Absent
       /\ secrets' = [secrets EXCEPT ![ConnectionSecretName(instance)] = s]
  /\ env' = env + 1
  /\ UNCHANGED <<object, remote, nextId, pc, locals>>
  /\ UNCHANGED peer

\* another writer deletes the connection secret
SecretDeleted ==
  /\ env < MaxEnv
  /\ pc \in {"GetSecret", "DeleteSecret", "CreateSecret"}
  /\ secrets[ConnectionSecretName(instance)] # Absent
  /\ secrets' = [secrets EXCEPT ![ConnectionSecretName(instance)] = Absent]
  /\ env' = env + 1
  /\ UNCHANGED <<object, remote, nextId, pc, locals>>
  /\ UNCHANGED peer

Next ==
  \/ Reconcile
  \/ HttpClient
  \/ GetInstanceId
  \/ GetSecret
  \/ DeleteSecret
  \/ PatchInstanceId
  \/ GetInstances
  \/ PostInstances
  \/ CreateSecret
  \/ PatchStatusGet
  \/ PatchStatusPatch
  \/ Return
  \/ UserEdit
  \/ StatusEdit
  \/ RemoteDelete
  \/ RemoteChange
  \/ SecretCreated
  \/ SecretDeleted

Spec == Init /\ [][Next]_vars

\* the steps of the reconciler.  The dispatcher runs a pass for the record
\* again after every pass that returned an error or a re-run hint and on every
\* resync, and a pass that began runs to its end.
Pass ==
  \/ Reconcile
  \/ HttpClient
  \/ GetInstanceId
  \/ GetSecret
  \/ DeleteSecret
  \/ PatchInstanceId
  \/ GetInstances
  \/ PostInstances
  \/ CreateSecret
  \/ PatchStatusGet
  \/ PatchStatusPatch
  \/ Return

FairSpec == Init /\ [][Next]_vars /\ WF_vars(Pass)

\* ------------------------------------- the resolution of the credentials
\* the keys a credentials secret may hold and the overrides a record may name
CredentialKeys == {"clientID", "clientSecret", "customID", "customSecret"}

\* the contents of a credentials secret: each key missing, empty or set
CredentialData ==
  UNION {[keys -> {"", "v"}] : keys \in SUBSET CredentialKeys}

\* a record with any key overrides and with or without a declared timeout over
\* any credentials secret, no instance in the tenant and a quiet environment
InitCredentials ==
  /\ \E idKey \in {"", "customID"}, secretKey \in {"", "customSecret"},
        timeout \in {0, RecordTimeout} :
       object = [spec |-> [DefaultSpec EXCEPT !.secret.clientIDKey = idKey,
                                              !.secret.clientSecretKey = secretKey,
                                              !.timeout = timeout],
                 generation |-> 1, resourceVersion |-> 0, status |-> EmptyStatus]
  /\ \E cred \in {Absent} \cup {[owners |-> <<>>, data |-> d] : d \in CredentialData} :
       secrets = [n \in SecretNames |-> IF n = CredSecretName THEN cred ELSE Absent]
  /\ remote = <<>>
  /\ nextId = 1
  /\ env = MaxEnv
  /\ pc = "idle"
  /\ NoPass
  /\ peer = 0

\* another writer completes the credentials secret between two passes: every
\* key gets a value; the record is not touched
SecretCompleted ==
  /\ pc = "idle"
  /\ secrets[CredSecretName] # Absent
  /\ secrets[CredSecretName].data # [k \in CredentialKeys |-> "v"]
  /\ secrets' = [secrets EXCEPT ![CredSecretName].data = [k \in CredentialKeys |-> "v"]]
  /\ UNCHANGED <<object, remote, nextId, env, pc, locals>>
  /\ UNCHANGED peer

NextCredentials ==
  \/ SecretCompleted
  \/ Reconcile
  \/ HttpClient
  \/ GetInstances
  \/ PostInstances
  \/ CreateSecret
  \/ GetInstanceId
  \/ PatchStatusGet
  \/ PatchStatusPatch
  \/ Return

SpecCredentials == InitCredentials /\ [][NextCredentials]_vars

TypeOK ==
  /\ pc \in {"idle", "httpClient", "GetInstanceId", "GetSecret", "DeleteSecret",
             "PatchInstanceId", "GetInstances", "PostInstances", "CreateSecret",
             "patchStatusGet", "patchStatusPatch", "done"}
  /\ env \in 0..MaxEnv
  /\ object.generation \in 1..(MaxEnv + 1)

\* ------------------------------------------------- observing a pass
\* the calls of the running pass to an operation, and whether one had a result
Count(op) == Cardinality({i \in 1..Len(log) : log[i].op = op})
Has(op, res) == \E i \in 1..Len(log) : log[i] = Event(op, res)

\* reconcile() of the running pass has returned
Returned == pc \in {"patchStatusGet", "patchStatusPatch"} \/ (pc = "done" /\ outcome # "suspended")

\* Reconcile() of the running pass has written the status
Written == pc = "done" /\ outcome = "completed"

\* the conditions of a type, and whether one has a status and a reason
NumCond(conds, type) == Cardinality({i \in 1..Len(conds) : conds[i].type = type})
HasCond(conds, type, status, reason) ==
  \E i \in 1..Len(conds) :
    conds[i].type = type /\ conds[i].status = status /\ conds[i].reason = reason

\* the conditions the reconciler sets
OwnConditions(conds) ==
  SelectSeq(conds, LAMBDA c : c.type \in {ConditionReady, ConditionReconciling})

\* the list response names an instance like the record
ListedByName == \E i \in 1..Len(listed) : listed[i].name = Name

\* a call to the Kubernetes API failed in the running pass
StoreCallFailed ==
  \/ Has("GetSecret", "error") \/ Has("DeleteSecret", "error")
  \/ Has("GetLatest", "error") \/ Has("PatchStatus", "error")
  \/ Has("PatchStatus", "conflict")

\* the running pass set a Ready condition: it failed, or it classified a
\* remote status other than creating
SetReady ==
  \/ err # nil
  \/ Has("GetInstanceId", StatusOK) /\ auraInstance.status # "creating"

\* ---------------------------------------------------------------- C1
\* C1: a pass that starts with an empty status.instanceID and whose list
\* response holds no instance with the record's name issues exactly one create
\* request, and the connection secret is written only right after that request
\* was answered 202: never before it, never after a rejected or failed create.
C1_CreateOnceThenSecret ==
  /\ Count("PostInstances") <= 1
  /\ (Returned /\ start.status.instanceID = 0 /\ Has("GetInstances", StatusOK)
        /\ ~ListedByName)
       => Count("PostInstances") = 1
  /\ \A i \in 1..Len(log) :
       log[i].op = "CreateSecret" =>
         i > 1 /\ log[i - 1] = Event("PostInstances", StatusAccepted)
  /\ (Count("PostInstances") = 1 /\ ~Has("PostInstances", StatusAccepted))
       => Count("CreateSecret") = 0

\* a completed pass that listed a foreign instance only, created its own and
\* wrote the connection secret from the create response
C1_Witness ==
  /\ Written
  /\ start.status.instanceID = 0
  /\ Len(listed) > 0 /\ ~ListedByName
  /\ Has("PostInstances", StatusAccepted)
  /\ Has("CreateSecret", "ok")
  /\ secrets[<<Name, "-connection">>] = ConnectionDetails(instance, auraInstance)

\* ---------------------------------------------------------------- C2
\* C2: a pass that starts with an empty status.instanceID and whose list
\* response holds an instance with the record's name sets status.instanceID to
\* the id of such an instance, issues no create request and writes no
\* connection secret; the status it writes carries that id.
C2_AdoptByName ==
  (Returned /\ start.status.instanceID = 0 /\ Has("GetInstances", StatusOK)
     /\ ListedByName)
  => /\ \E i \in 1..Len(listed) :
          listed[i].name = Name /\ instance.status.instanceID = listed[i].id
     /\ Count("PostInstances") = 0
     /\ Count("CreateSecret") = 0
     /\ err = nil
     /\ Written => object.status.instanceID = instance.status.instanceID

\* a completed pass that found the record's name second in the list and kept its id
C2_Witness ==
  /\ Written
  /\ start.status.instanceID = 0
  /\ Len(listed) = 2 /\ listed[1].name = OtherName /\ listed[2].name = Name
  /\ object.status.instanceID = listed[2].id
  /\ Len(log) = 5

\* ---------------------------------------------------------------- C3
\* C3: in a pass whose get is answered 404, a connection secret whose first
\* owner reference names another uid makes the pass fail with nothing deleted
\* and nothing cleared; otherwise, when the calls to the store succeed, the
\* connection secret is deleted if it exists and status.instanceID and
\* status.connectionSecret are cleared, in the written status too.
C3_CleanupAfterNotFound ==
  (Returned /\ Has("GetInstanceId", StatusNotFound)) =>
    IF Has("GetSecret", "ok") /\ Len(secret.owners) > 0 /\ secret.owners[1] # UID
      THEN /\ err = <<"failed to delete secret, owner uid does not match", secret.owners[1]>>
           /\ Count("DeleteSecret") = 0
           /\ secrets[ConnectionSecretName(start)] = secret
           /\ instance.status.instanceID = start.status.instanceID
           /\ instance.status.connectionSecret = start.status.connectionSecret
           /\ Written => object.status.instanceID = start.status.instanceID
    ELSE IF Has("GetSecret", "error") \/ Has("DeleteSecret", "error")
      THEN /\ err # nil
           /\ instance.status.instanceID = start.status.instanceID
    ELSE /\ err = nil
         /\ Has("GetSecret", "ok") <=> Has("DeleteSecret", "ok")
         /\ secrets[ConnectionSecretName(start)] = Absent
         /\ instance.status.instanceID = 0
         /\ instance.status.connectionSecret = nil
         /\ result.Requeue
         /\ Written => object.status.instanceID = 0 /\ object.status.connectionSecret = nil

\* a completed pass that met a connection secret of another owner after a 404
C3_Witness ==
  /\ Written
  /\ Has("GetInstanceId", StatusNotFound)
  /\ Has("GetSecret", "ok")
  /\ secret.owners = <<OtherUID>>
  /\ secrets[ConnectionSecretName(start)] = secret
  /\ object.status.instanceID # 0
  /\ HasCond(object.status.conditions, ConditionReady, "False", "ReconciliationFailed")

\* ---------------------------------------------------------------- C4
\* C4: a connection secret is deleted only after its owner reference was
\* checked and names the record's uid; a secret of another owner, or one with
\* no owner reference, is never deleted.
C4_DeleteOnlyOwned ==
  Has("DeleteSecret", "ok") => Len(secret.owners) > 0 /\ secret.owners[1] = UID

\* ---------------------------------------------------------------- C5
\* C5: a pass issues a patch request iff its get was answered 200, the remote
\* status is not creating, and memory, vectorOptimized or graphAnalyticsPlugin
\* of the spec differs from the response; it issues at most one.
C5_PatchIffDrift ==
  /\ Count("PatchInstanceId") <= 1
  /\ Returned =>
       (Count("PatchInstanceId") = 1 <=>
          /\ Has("GetInstanceId", StatusOK)
          /\ auraInstance.status # "creating"
          /\ \/ instance.spec.memory # auraInstance.memory
             \/ instance.spec.vectorOptimized # auraInstance.vectorOptimized
             \/ instance.spec.graphAnalyticsPlugin # auraInstance.graphAnalyticsPlugin)

\* a pass that patched an instance whose vectorOptimized alone differed
C5_Witness ==
  /\ pc = "done"
  /\ Has("PatchInstanceId", StatusAccepted)
  /\ auraInstance.memory = instance.spec.memory
  /\ auraInstance.graphAnalyticsPlugin = instance.spec.graphAnalyticsPlugin
  /\ auraInstance.vectorOptimized # instance.spec.vectorOptimized

\* ---------------------------------------------------------------- C6
\* C6: a pass that reads the record with spec.suspend set ends at once: it
\* makes no call besides that read, sets no condition and writes no status.
C6_SuspendedPassIsNoOp ==
  (pc # "idle" /\ start.spec.suspend) =>
    /\ pc = "done"
    /\ outcome = "suspended"
    /\ log = <<Event("Get", "ok")>>
    /\ instance.status = start.status
    /\ object.status = start.status
    /\ result = NoResult
    /\ err = nil

\* a suspended pass over a record that is bound to an instance
C6_Witness ==
  /\ pc = "done"
  /\ start.spec.suspend
  /\ start.status.instanceID # 0
  /\ object.status = start.status

\* ---------------------------------------------------------------- C7
\* C7: a pass over a bound record whose get is answered 404 writes an empty
\* status.instanceID, provided the connection secret is not another owner's
\* and no call to the store fails; so after the record reached Ready=True
\* (InstanceRunning) and the remote instance was deleted out of band.
C7_NotFoundPersistsEmptyId ==
  (pc = "done" /\ Has("GetInstanceId", StatusNotFound)
     /\ ~(Has("GetSecret", "ok") /\ Len(secret.owners) > 0 /\ secret.owners[1] # UID)
     /\ ~StoreCallFailed)
  => /\ outcome = "completed"
     /\ start.status.instanceID # 0
     /\ object.status.instanceID = 0

\* the pass after an out-of-band deletion of a created, running instance
C7_Witness ==
  /\ Written
  /\ Has("GetInstanceId", StatusNotFound)
  /\ HasCond(start.status.conditions, ConditionReady, "True", "InstanceRunning")
  /\ start.status.connectionSecret # nil
  /\ Has("DeleteSecret", "ok")
  /\ object.status.instanceID = 0

C9_ExactlyOneReady ==
  Written =>
    /\ NumCond(object.status.conditions, ConditionReady) = 1
    /\ NumCond(object.status.conditions, ConditionReconciling) <= 1

\* C9: every stored status holds at most one Ready and at most one Reconciling
\* condition, and exactly one Ready condition when it was written by a pass that
\* failed or that classified a remote status other than creating.
C9_AtMostOneOfEach ==
  /\ NumCond(object.status.conditions, ConditionReady) <= 1
  /\ NumCond(object.status.conditions, ConditionReconciling) <= 1
  /\ (Written /\ SetReady) => NumCond(object.status.conditions, ConditionReady) = 1

\* a written status with one Ready and one Reconciling condition after a failed pass
C9_Witness ==
  /\ Written
  /\ err # nil
  /\ NumCond(object.status.conditions, ConditionReady) = 1
  /\ NumCond(object.status.conditions, ConditionReconciling) = 1

\* ---------------------------------------------------------------- C10
\* C10 as the specification states it: a status written by a pass that set
\* Ready to a terminal value holds no Reconciling=True condition.
C10_ReadyClearsReconciling ==
  (Written /\ SetReady) =>
    \A i \in 1..Len(object.status.conditions) :
      object.status.conditions[i].type = ConditionReconciling
        => object.status.conditions[i].status # "True"

\* C10: a pass that classifies the remote status running drops the Reconciling
\* condition before it sets Ready=True (InstanceRunning); its status holds a
\* Reconciling condition only as UpdatingInstance, set after the drift test of
\* the same pass, and the written status holds the Ready and Reconciling
\* conditions of that status.
C10_RunningDropsReconciling ==
  (Returned /\ Has("GetInstanceId", StatusOK) /\ auraInstance.status = "running") =>
    /\ \A i \in 1..Len(instance.status.conditions) :
         instance.status.conditions[i].type = ConditionReconciling
           => /\ instance.status.conditions[i].reason = "UpdatingInstance"
              /\ Count("PatchInstanceId") = 1
    /\ IF err = nil
         THEN HasCond(instance.status.conditions, ConditionReady, "True", "InstanceRunning")
         ELSE HasCond(instance.status.conditions, ConditionReady, "False", "ReconciliationFailed")
    /\ Written => OwnConditions(object.status.conditions)
                     = OwnConditions(instance.status.conditions)

\* a pass that found the instance running and dropped the Reconciling condition
\* of the pass before
C10_Witness ==
  /\ Written
  /\ Has("GetInstanceId", StatusOK)
  /\ auraInstance.status = "running"
  /\ NumCond(start.status.conditions, ConditionReconciling) = 1
  /\ NumCond(object.status.conditions, ConditionReconciling) = 0
  /\ HasCond(object.status.conditions, ConditionReady, "True", "InstanceRunning")

\* ------------------------------------------------- more observations
\* the Ready condition Reconcile() sets for an error
FailedWith(conds, e) ==
  \E i \in 1..Len(conds) :
    /\ conds[i].type = ConditionReady
    /\ conds[i].status = "False"
    /\ conds[i].reason = "ReconciliationFailed"
    /\ conds[i].message = e

\* the pass made a call to the Aura API
RemoteCalls ==
  Count("GetInstanceId") + Count("GetInstances") + Count("PostInstances")
    + Count("PatchInstanceId")

\* the step is the successful status write of the pass
WriteStep == pc = "patchStatusPatch" /\ outcome' = "completed"

\* another writer's condition is in the stored status
HasExternal(o) ==
  \E i \in 1..Len(o.status.conditions) : o.status.conditions[i] = ExternalCondition

\* ---------------------------------------------------------------- C11
\* C11: status.observedGeneration changes only in the status write at the end
\* of a pass, which leaves it at the generation the pass read, whether the pass
\* failed or not; it never exceeds the generation of the record.
C11_ObservedGenerationAtWrite ==
  [][ /\ (object'.status.observedGeneration # object.status.observedGeneration)
           => WriteStep
      /\ WriteStep => object'.status.observedGeneration = start.generation
      /\ object'.status.observedGeneration <= object'.generation ]_vars

\* a failed pass over the second generation of the record that wrote it
C11_Witness ==
  /\ Written
  /\ err # nil
  /\ start.generation = 2
  /\ start.status.observedGeneration = 1
  /\ object.status.observedGeneration = 2

\* ---------------------------------------------------------------- C12
\* C12 as the specification states it: once a pass observed 404 for the id, the
\* status it writes holds no instance id.
C12_NotFoundEmptiesId ==
  (Written /\ Has("GetInstanceId", StatusNotFound)) => object.status.instanceID = 0

\* C12: the stored status.instanceID becomes non-empty only in the status write
\* of a pass that adopted an instance by name or got a 202 create response, with
\* that id; it becomes empty only in the status write of a pass whose get was
\* answered 404; and such writes do set it, resp. clear it when the 404 pass
\* ended without error.
C12_InstanceIdFollowsBinding ==
  [][ /\ (object'.status.instanceID # object.status.instanceID) =>
           /\ WriteStep
           /\ IF object.status.instanceID = 0
                THEN \/ /\ Count("PostInstances") = 0
                        /\ \E i \in 1..Len(listed) :
                             /\ listed[i].name = Name
                             /\ listed[i].id = object'.status.instanceID
                     \/ /\ Has("PostInstances", StatusAccepted)
                        /\ auraInstance.id = object'.status.instanceID
                ELSE /\ object'.status.instanceID = 0
                     /\ Has("GetInstanceId", StatusNotFound)
      /\ WriteStep =>
           /\ (Has("GetInstances", StatusOK) /\ ListedByName)
                => object'.status.instanceID # 0
           /\ Has("PostInstances", StatusAccepted) => object'.status.instanceID # 0
           /\ (Has("GetInstanceId", StatusNotFound) /\ err = nil)
                => object'.status.instanceID = 0
           /\ (Has("GetInstanceId", StatusNotFound) /\ err # nil)
                => object'.status.instanceID = start.status.instanceID ]_vars

\* a written status that keeps the id after a 404 whose cleanup could not read
\* the connection secret
C12_Witness ==
  /\ Written
  /\ Has("GetInstanceId", StatusNotFound)
  /\ Has("GetSecret", "error")
  /\ object.status.instanceID # 0
  /\ RemoteIndex(object.status.instanceID) = {}

\* ---------------------------------------------------------------- C13
\* C13: a pass that ends with an error holds exactly one Ready condition, False
\* with reason ReconciliationFailed and the error's message; the status it
\* writes holds that condition, and it returns the error with an empty result.
C13_FailedPassSetsReadyFalse ==
  (Returned /\ err # nil) =>
    /\ FailedWith(instance.status.conditions, err)
    /\ NumCond(instance.status.conditions, ConditionReady) = 1
    /\ Written =>
         /\ FailedWith(object.status.conditions, err)
         /\ NumCond(object.status.conditions, ConditionReady) = 1
         /\ result = NoResult

\* a written failure of a rejected patch request, with code and body in the message
C13_Witness ==
  /\ Written
  /\ Has("PatchInstanceId", StatusError)
  /\ err = <<"failed to update instance, request failed with code", StatusError, Body>>
  /\ FailedWith(object.status.conditions, err)

\* ---------------------------------------------------------------- C14
\* C14: when the get of a bound record is answered with a code other than 200
\* and 404, the pass fails with a message holding the code and the body, sets
\* Ready=False (ReconciliationFailed) with it, keeps status.instanceID and
\* status.connectionSecret and issues no patch and no create request.
C14_GetRejectedAborts ==
  (Returned /\ Has("GetInstanceId", StatusError)) =>
    /\ err = <<"failed to get instance, request failed with code", StatusError, Body>>
    /\ FailedWith(instance.status.conditions, err)
    /\ instance.status.instanceID = start.status.instanceID
    /\ instance.status.connectionSecret = start.status.connectionSecret
    /\ Count("PatchInstanceId") = 0
    /\ Count("PostInstances") = 0
    /\ Count("GetSecret") = 0
    /\ Written =>
         /\ FailedWith(object.status.conditions, err)
         /\ object.status.instanceID = start.status.instanceID
         /\ object.status.connectionSecret = start.status.connectionSecret

\* a written failure of a rejected get for a created instance that still exists
C14_Witness ==
  /\ Written
  /\ Has("GetInstanceId", StatusError)
  /\ start.status.connectionSecret # nil
  /\ RemoteIndex(start.status.instanceID) # {}
  /\ FailedWith(object.status.conditions, err)

\* ---------------------------------------------------------------- C15
\* C15: when the secret spec.secret names does not exist, the pass fails in
\* httpClient() before any call to the Aura API, with the message
\* failed to get secret: Secret "<name>" not found, and the status it writes
\* holds Ready=False (ReconciliationFailed) with that message.
C15_MissingCredentialsSecret ==
  /\ (pc \notin {"idle", "httpClient"} /\ ~start.spec.suspend
        /\ secrets[start.spec.secret.name] = Absent)
       => Has("GetCredentials", "notfound") \/ Has("GetCredentials", "error")
  /\ (Returned /\ Has("GetCredentials", "notfound")) =>
       /\ err = <<"failed to get secret",
                  <<"Secret", start.spec.secret.name, "not found">>>>
       /\ RemoteCalls = 0
       /\ FailedWith(instance.status.conditions, err)
       /\ Written => FailedWith(object.status.conditions, err)

\* the written status of the first pass over a record whose credentials are missing
C15_Witness ==
  /\ Written
  /\ Has("GetCredentials", "notfound")
  /\ Len(log) = 4
  /\ object.status.observedGeneration = 1
  /\ FailedWith(object.status.conditions,
                <<"failed to get secret", <<"Secret", CredSecretName, "not found">>>>)

\* ---------------------------------------------------------------- C18
\* C18: a step of a pass changes the stored status only as the one status write
\* at the end of the pass, which leaves every status field at the value of the
\* pass's copy or at the stored value; a pass makes at most one such write, and
\* exactly one attempt once patchStatus() has read the latest record.
C18_OneStatusWriteAtEnd ==
  [][ /\ (pc' # pc /\ object'.status # object.status) =>
           /\ WriteStep
           /\ pc' = "done"
           /\ \A f \in StatusFields :
                object'.status[f] \in {instance.status[f], object.status[f]}
      /\ Count("PatchStatus")' <= 1
      /\ (pc = "patchStatusPatch" /\ pc' = "done") => Count("PatchStatus")' = 1
      /\ (pc' # pc /\ pc # "patchStatusPatch") => Count("PatchStatus")' = 0 ]_vars

\* a pass that created an instance and whose one write stored id, secret name
\* and condition together
C18_Witness ==
  /\ Written
  /\ Has("CreateSecret", "ok")
  /\ Count("PatchStatus") = 1
  /\ start.status = EmptyStatus
  /\ object.status = instance.status
  /\ object.status.instanceID # 0
  /\ object.status.connectionSecret # nil
  /\ Len(object.status.conditions) = 1

\* ---------------------------------------------------------------- C19
\* C19: a change another writer made to the status of the record while the pass
\* ran is still in the store after a step of the pass, its status write included.
C19_ExternalEditSurvives ==
  [][ HasExternal(object) => HasExternal(object') ]_vars

\* ---------------------------------------------------------------- C20
\* C20: a step of a pass changes a secret only by creating the connection
\* secret under a free name after a 202 create response, or by deleting it
\* after a 404 get; the create over an existing secret leaves it as it is and
\* fails the pass.
C20_SecretCreatedOrDeletedOnly ==
  [][ /\ \A n \in SecretNames :
           (pc' # pc /\ secrets'[n] # secrets[n]) =>
             \/ /\ pc = "CreateSecret"
                /\ secrets[n] = Absent
                /\ Has("PostInstances", StatusAccepted)
                /\ secrets'[n] = ConnectionDetails(instance, auraInstance)
             \/ /\ pc = "DeleteSecret"
                /\ secrets'[n] = Absent
                /\ Has("GetInstanceId", StatusNotFound)
      /\ (pc = "CreateSecret" /\ pc' # pc
            /\ secrets[ConnectionSecretName(instance)] # Absent) =>
           /\ secrets' = secrets
           /\ err' # nil /\ err'[1] = "failed to create connection secret" ]_vars

\* a pass whose create of the connection secret met a secret of another writer
\* and left it in place
C20_Witness ==
  /\ Returned
  /\ Has("PostInstances", StatusAccepted)
  /\ Has("CreateSecret", "error")
  /\ secrets[ConnectionSecretName(start)] \in ExternalSecrets
  /\ err = <<"failed to create connection secret", <<"already exists">>>>

C17_ResolvesIffBothKeysSet ==
  LET sec == secrets[start.spec.secret.name]
      idKey == IF start.spec.secret.clientIDKey # ""
                 THEN start.spec.secret.clientIDKey ELSE "clientID"
      secretKey == IF start.spec.secret.clientSecretKey # ""
                     THEN start.spec.secret.clientSecretKey ELSE "clientSecret"
      Set(k) == k \in DOMAIN sec.data /\ sec.data[k] # ""
  IN (pc \notin {"idle", "httpClient"} /\ ~start.spec.suspend
        /\ ~Has("GetCredentials", "error")) =>
       (Has("GetCredentials", "ok") <=> (sec # Absent /\ Set(idKey) /\ Set(secretKey)))

\* credentials that resolve with the secret key overridden and the id key not,
\* from a secret holding exactly these two keys
C17_Witness ==
  /\ Has("GetCredentials", "ok")
  /\ Count("GetInstances") = 1
  /\ start.spec.secret.clientIDKey = ""
  /\ start.spec.secret.clientSecretKey = "customSecret"
  /\ secrets[CredSecretName] # Absent
  /\ secrets[CredSecretName].data = [k \in {"clientID", "customSecret"} |-> "v"]

\* ---------------------------------------------------------------- C21
\* C21: the calls of a pass to the Aura API are bounded by the timeout the
\* record declares in spec.timeout when it is set, and by the timeout of the
\* process otherwise.
C21_DeclaredTimeoutBoundsCalls ==
  Has("GetCredentials", "ok") =>
    ClientTimeout(instance) = IF start.spec.timeout # 0 THEN start.spec.timeout
                              ELSE ProcessTimeout

\* ---------------------------------------------------------------- C22
\* C22: the connection secret a pass writes after a 202 create response is
\* named by spec.connectionSecret.name when set and <name>-connection
\* otherwise, holds exactly username, password and connectionURL of the create
\* response, and has one owner reference, with the uid of the record;
\* status.connectionSecret of the pass, and of the status it writes, is that name.
C22_ConnectionSecretOfCreate ==
  (Returned /\ Has("CreateSecret", "ok")) =>
    LET name == IF start.spec.connectionSecret # nil THEN start.spec.connectionSecret
                ELSE <<Name, "-connection">>
        written == secrets[name]
    IN /\ written # Absent
       /\ DOMAIN written.data = {"username", "password", "connectionURL"}
       /\ written.data.username = CreateResponse(auraInstance.id).username
       /\ written.data.password = CreateResponse(auraInstance.id).password
       /\ written.data.connectionURL = CreateResponse(auraInstance.id).connectionUrl
       /\ written.owners = <<UID>>
       /\ Has("PostInstances", StatusAccepted)
       /\ instance.status.instanceID = auraInstance.id
       /\ instance.status.connectionSecret = name
       /\ Written => object.status.connectionSecret = name

\* a completed create pass over a record that overrides the name: the secret is
\* under the override, none under the default name
C22_Witness ==
  /\ Written
  /\ Has("CreateSecret", "ok")
  /\ start.spec.connectionSecret = CustomConnName
  /\ secrets[CustomConnName] # Absent
  /\ secrets[CustomConnName].owners = <<UID>>
  /\ secrets[CustomConnName].data.connectionURL = <<"url", object.status.instanceID>>
  /\ secrets[<<Name, "-connection">>] = Absent
  /\ object.status.connectionSecret = CustomConnName

\* the conditions of a type, in order
CondsOf(conds, type) == SelectSeq(conds, LAMBDA c : c.type = type)

\* ---------------------------------------------------------------- C23
\* C23: a pass whose get is answered 200 stores the status string of the
\* response in status.instanceStatus and classifies by it.  running: the
\* Reconciling condition is removed and Ready=True (InstanceRunning) is set.
\* creating: Reconciling=True (InstanceCreating) is set, the Ready condition is
\* left as the pass read it and the pass ends without error and without a
\* further call to the Aura API.  Any other status: Ready=False
\* (InstanceNotReady) is set with the message Instance status: <status> and
\* the Reconciling condition is left as read.  (Where the drift test then
\* issues a patch request, Reconciling=True (UpdatingInstance) is set on top,
\* and a failing patch request replaces the Ready condition.)
C23_ClassifiesRemoteStatus ==
  (Returned /\ Has("GetInstanceId", StatusOK)) =>
    LET conds == instance.status.conditions
        ready == CondsOf(conds, ConditionReady)
        reconciling == CondsOf(conds, ConditionReconciling)
        updating == [type |-> ConditionReconciling, status |-> "True",
                     reason |-> "UpdatingInstance",
                     message |-> <<"Updating Aura instance">>,
                     observedGeneration |-> start.generation]
    IN
    /\ instance.status.instanceStatus = auraInstance.status
    /\ Written => object.status.instanceStatus = auraInstance.status
    /\ auraInstance.status = "running" =>
         /\ reconciling = IF Count("PatchInstanceId") = 1 THEN <<updating>> ELSE <<>>
         /\ err = nil =>
              ready = <<[type |-> ConditionReady, status |-> "True",
                         reason |-> "InstanceRunning",
                         message |-> <<"Instance is running">>,
                         observedGeneration |-> start.generation]>>
    /\ auraInstance.status = "creating" =>
         /\ reconciling = <<[type |-> ConditionReconciling, status |-> "True",
                               reason |-> "InstanceCreating",
                               message |-> <<"Instance is being created">>,
                               observedGeneration |-> start.generation]>>
         /\ ready = CondsOf(start.status.conditions, ConditionReady)
         /\ err = nil
         /\ RemoteCalls = 1
    /\ auraInstance.status \notin {"running", "creating"} =>
         /\ reconciling = IF Count("PatchInstanceId") = 1 THEN <<updating>>
                           ELSE CondsOf(start.status.conditions, ConditionReconciling)
         /\ err = nil =>
              ready = <<[type |-> ConditionReady, status |-> "False",
                         reason |-> "InstanceNotReady",
                         message |-> <<"Instance status: ", auraInstance.status>>,
                         observedGeneration |-> start.generation]>>

\* a written status of a pass that found the instance paused: the status
\* string, Ready=False with it, and the Reconciling condition of the create pass
C23_Witness ==
  /\ Written
  /\ Has("GetInstanceId", StatusOK)
  /\ auraInstance.status = "paused"
  /\ object.status.instanceStatus = "paused"
  /\ \E i \in 1..Len(object.status.conditions) :
       /\ object.status.conditions[i].type = ConditionReady
       /\ object.status.conditions[i].reason = "InstanceNotReady"
       /\ object.status.conditions[i].message = <<"Instance status: ", "paused">>
  /\ HasCond(object.status.conditions, ConditionReconciling, "True", "CreatingInstance")

\* -------------------------------------------- what the dispatcher is handed
\* a ctrl.Result that asks for the next pass at once: Requeue with no
\* RequeueAfter (the dispatcher reads a positive RequeueAfter first and then
\* waits that long, whatever Requeue says)
Immediate(res) == res.Requeue /\ res.RequeueAfter = 0

\* the pass adopted an instance by name
Adopted == Has("GetInstances", StatusOK) /\ ListedByName

\* the pass returns to the dispatcher without error
Succeeded == Written /\ err = nil

\* ---------------------------------------------------------------- C24
\* C24: a pass that adopted an instance by name, and a pass that cleared
\* status.instanceID after a 404, returns without error a result that asks for
\* the next pass at once, whether the record declares an interval or not.
C24_ImmediateRerunAfterRebinding ==
  (Succeeded /\ (Adopted \/ Has("GetInstanceId", StatusNotFound))) => Immediate(result)

\* ---------------------------------------------------------------- C25
\* C25: a pass that created the remote instance and wrote its connection
\* secret, and a pass that found the remote status creating, returns without
\* error a result that asks for the next pass after 30 seconds, whether the
\* record declares an interval or not.
C25_FixedDelayWhileCreating ==
  (Succeeded /\ (\/ Has("CreateSecret", "ok")
                 \/ Has("GetInstanceId", StatusOK) /\ auraInstance.status = "creating"))
  => result = [Requeue |-> FALSE, RequeueAfter |-> FixedDelay]

C27_FirstExactMatchAdopted ==
  (Returned /\ start.status.instanceID = 0 /\ Has("GetInstances", StatusOK)) =>
    LET matches == {i \in 1..Len(listed) : listed[i].name = Name} IN
    IF matches = {}
      THEN /\ Count("PostInstances") = 1
           /\ \A i \in 1..Len(listed) : instance.status.instanceID # listed[i].id
      ELSE /\ \A i \in matches :
                (\A k \in matches : i <= k) => instance.status.instanceID = listed[i].id
           /\ Count("PostInstances") = 0
           /\ Written => object.status.instanceID = instance.status.instanceID

\* a completed pass over a list of two instances with the record's name: the
\* id of the first is in the written status
C27_Witness ==
  /\ Written
  /\ start.status.instanceID = 0
  /\ Len(listed) = 2
  /\ listed[1].name = Name /\ listed[2].name = Name
  /\ listed[1].id # listed[2].id
  /\ object.status.instanceID = listed[1].id

\* ---------------------------------------------------------------- C28
\* C28: the status write of a pass is a compare-and-swap against the record
\* patchStatus() read: when the stored record changed between that read and the
\* write, the write fails as a conflict and leaves the stored record as it is.
C28_StatusWriteIsCompareAndSwap ==
  [][ (pc = "patchStatusPatch" /\ pc' = "done" /\ object # latest) =>
        /\ outcome' = "statusfailed"
        /\ object' = object ]_vars

\* Reconcile() returns an error to the dispatcher, which asks for a retry of
\* the pass on the dispatcher's backoff
ReturnsError == pc = "done" /\ (err # nil \/ outcome = "statusfailed")

\* ---------------------------------------------------------------- C29
\* C29 as the specification states it: a pass that fails because a value of
\* the credentials secret is empty or missing asks for no retry: it returns no
\* error and an empty result.
C29_InvalidCredentialIsTerminal ==
  (pc = "done" /\ Has("GetCredentials", "invalid")) =>
    ~ReturnsError /\ result = NoResult

\* C29: a pass over an existing credentials secret with an empty or missing
\* value under a key of the lookup fails before any call to the Aura API and
\* returns that error, with an empty result, to the dispatcher, as every
\* failed pass does: the retry is asked for, whether the record is edited or not.
C29_InvalidCredentialIsRetried ==
  LET sec == secrets[start.spec.secret.name]
      idKey == IF start.spec.secret.clientIDKey # ""
                 THEN start.spec.secret.clientIDKey ELSE "clientID"
      secretKey == IF start.spec.secret.clientSecretKey # ""
                     THEN start.spec.secret.clientSecretKey ELSE "clientSecret"
      Empty(k) == k \notin DOMAIN sec.data \/ sec.data[k] = ""
  IN (pc = "done" /\ ~start.spec.suspend /\ sec # Absent
        /\ ~Has("GetCredentials", "error") /\ (Empty(idKey) \/ Empty(secretKey))) =>
       /\ Has("GetCredentials", "invalid")
       /\ RemoteCalls = 0
       /\ err # nil /\ err[1] = "secret must contain"
       /\ ReturnsError
       /\ Written => result = NoResult

\* the retried pass over a record that was never edited: the pass before it
\* failed for a missing value, the secret was completed since, and the
\* credentials resolve
C29_Witness ==
  /\ Has("GetCredentials", "ok")
  /\ start.generation = 1
  /\ object.spec = start.spec
  /\ \E i \in 1..Len(start.status.conditions) :
       /\ start.status.conditions[i].type = ConditionReady
       /\ start.status.conditions[i].reason = "ReconciliationFailed"
       /\ start.status.conditions[i].message[1] = "secret must contain"

\* a pass ended whose cleanup after a 404 was refused: the connection secret
\* names another owner
Refused ==
  /\ pc = "done"
  /\ Has("GetInstanceId", StatusNotFound)
  /\ err # nil /\ err[1] = "failed to delete secret, owner uid does not match"

\* the record is bound to an instance the tenant does not hold
BoundToMissing ==
  object.status.instanceID # 0 /\ RemoteIndex(object.status.instanceID) = {}

\* ---------------------------------------------------------------- C30
\* C30: a refused cleanup does not block the record: after a pass whose
\* cleanup was refused for the owner of the connection secret, the passes that
\* follow bring the record out of the binding to the missing instance.
C30_RefusalDoesNotBlock == Refused ~> ~BoundToMissing

\* ------------------------------------- a tenant that accepts every request
\* a record with either memory over resolvable credentials; the tenant holds
\* any instances, running; the name of the connection secret is free or taken
\* by another writer's secret; no call fails
InitAccepting ==
  /\ \E m \in Memories :
       object = [spec |-> [DefaultSpec EXCEPT !.memory = m], generation |-> 1,
                 resourceVersion |-> 0, status |-> EmptyStatus]
  /\ \E conn \in {Absent} \cup ExternalSecrets :
       secrets = [n \in SecretNames |->
                    IF n = CredSecretName THEN ValidCredentials
                    ELSE IF n = <<Name, "-connection">> THEN conn ELSE Absent]
  /\ remote \in InitialRemotes(MaxPre)
  /\ nextId = Len(remote) + 1
  /\ env = MaxEnv
  /\ pc = "idle"
  /\ NoPass
  /\ peer = 0

\* an instance that is being created comes up and reports running
RemoteRuns ==
  /\ \E i \in 1..Len(remote) :
       /\ remote[i].status = "creating"
       /\ remote' = [remote EXCEPT ![i].status = "running"]
  /\ UNCHANGED <<object, secrets, nextId, env, pc, locals>>
  /\ UNCHANGED peer

NextAccepting ==
  \/ Reconcile
  \/ HttpClient
  \/ GetInstanceId
  \/ PatchInstanceId
  \/ GetInstances
  \/ PostInstances
  \/ CreateSecret
  \/ PatchStatusGet
  \/ PatchStatusPatch
  \/ Return
  \/ RemoteRuns

\* passes are run again and run to their end, and a created instance comes up
SpecAccepting ==
  InitAccepting /\ [][NextAccepting]_vars /\ WF_vars(Pass) /\ WF_vars(RemoteRuns)

\* the stored status is bound and Ready=True (InstanceRunning)
StoredReady ==
  /\ object.status.instanceID # 0
  /\ HasCond(object.status.conditions, ConditionReady, "True", "InstanceRunning")

\* ---------------------------------------------------------------- C31
\* C31: when passes are run again and again, the credentials resolve, every
\* request is accepted and a created instance comes to report running, the
\* stored status of the record comes to hold an instance id and Ready=True
\* (InstanceRunning), and keeps them.
C31_EventuallyReady == <>[]StoredReady

\* the stored status is ready with the id of an instance the record's own
\* create request made, next to instances of other names
C31_Witness ==
  /\ StoredReady
  /\ pc = "idle"
  /\ object.status.instanceID = Len(remote)
  /\ Len(remote) > 1
  /\ object.status.connectionSecret # nil
  /\ remote[Len(remote)].status = "running"

\* ---------------------------------------------------------------- C32
\* C32: a stored status with Ready=True (InstanceRunning) holds an instance id
\* and the instanceStatus running.
C32_ReadyImpliesRunningInstance ==
  HasCond(object.status.conditions, ConditionReady, "True", "InstanceRunning") =>
    /\ object.status.instanceID # 0
    /\ object.status.instanceStatus = "running"

\* the instances of the tenant with the record's name
Named == {i \in 1..Len(remote) : remote[i].name = Name}

\* ---------------------------------------------------------------- C33
\* C33: in every pass of every run, a create request is issued only when the
\* list response of the pass, and the tenant at that moment, hold no instance
\* with the record's name; after an accepted create the tenant holds exactly
\* one.  So also after a pass whose status write failed after an accepted
\* create: the next pass finds the instance in the list and adopts it.
C33_NoCreateWhileNamed ==
  /\ pc = "PostInstances" => (~ListedByName /\ Named = {})
  /\ Count("PostInstances") > 0 => ~ListedByName
  /\ Has("PostInstances", StatusAccepted) => Cardinality(Named) = 1

\* a pass that adopted the instance a pass before it created, whose status
\* write had failed: the status was still empty, the connection secret written
C33_Witness ==
  /\ Written
  /\ start.status = EmptyStatus
  /\ Adopted
  /\ Count("PostInstances") = 0
  /\ Cardinality(Named) = 1
  /\ \E i \in 1..Len(listed) :
       /\ listed[i].status = "creating"
       /\ object.status.instanceID = listed[i].id
  /\ secrets[<<Name, "-connection">>] # Absent
  /\ secrets[<<Name, "-connection">>].owners = <<UID>>

\* ------------------------------ two records of one name over one tenant
\* The record of the same name in another namespace declares the same tenant
\* and the same configuration.  Its unbound pass is taken as one step, between
\* any two steps of the record's own pass: it binds to the first instance of
\* the list with its name, or creates one and binds to it.  Its secrets are
\* those of its own namespace.
PeerReconcile ==
  /\ peer = 0
  /\ IF FirstMatch(remote, 1) # 0
       THEN /\ peer' = remote[FirstMatch(remote, 1)].id
            /\ UNCHANGED <<remote, nextId>>
       ELSE /\ remote' = Append(remote, RemoteInstance(nextId, Name, "creating", DefaultSpec))
            /\ nextId' = nextId + 1
            /\ peer' = nextId
  /\ UNCHANGED <<object, secrets, env, pc, locals>>

InitPeers ==
  /\ object = [spec |-> DefaultSpec, generation |-> 1, resourceVersion |-> 0,
               status |-> EmptyStatus]
  /\ secrets = [n \in SecretNames |-> IF n = CredSecretName THEN ValidCredentials
                                      ELSE Absent]
  /\ remote \in InitialRemotes(MaxPre)
  /\ nextId = Len(remote) + 1
  /\ peer = 0
  /\ env = MaxEnv
  /\ pc = "idle"
  /\ NoPass

NextPeers ==
  \/ PeerReconcile
  \/ Reconcile
  \/ HttpClient
  \/ GetInstanceId
  \/ GetInstances
  \/ PostInstances
  \/ CreateSecret
  \/ PatchStatusGet
  \/ PatchStatusPatch
  \/ Return

SpecPeers == InitPeers /\ [][NextPeers]_vars

\* ---------------------------------------------------------------- C34
\* C34: the record and the record of the same name in another namespace are
\* never bound to the same instance id at the same time.
C34_DistinctBindings ==
  object.status.instanceID # 0 => object.status.instanceID # peer

\* ---------------------------------------------------------------- C35
\* C35: the cleanup after a 404 looks up and deletes the secret that
\* status.connectionSecret names: once the cleanup of a pass ended without
\* error, no secret is left under the name the status held.
C35_CleanupDeletesStatusNamedSecret ==
  (Returned /\ Has("GetInstanceId", StatusNotFound) /\ err = nil
     /\ start.status.connectionSecret # nil)
  => secrets[start.status.connectionSecret] = Absent

\* ---------------------------------------------------------------- C36
\* C36: the status a pass writes names a connection secret only when the pass,
\* or a pass before it, wrote that secret: a pass whose write of the connection
\* secret failed stores no name.
C36_NameOnlyOfWrittenSecret ==
  (Written /\ start.status.connectionSecret = nil /\ Has("CreateSecret", "error"))
  => object.status.connectionSecret = nil

\* the operations of the Aura API
RemoteOps == {"GetInstanceId", "GetInstances", "PostInstances", "PatchInstanceId"}

\* ---------------------------------------------------------------- C37
\* C37: the calls of a pass come one after the other, the lookup of the
\* credentials before any call to the Aura API, and none is made when the
\* lookup fails.  With resolved credentials a pass that starts bound makes
\* exactly one get and at most one patch request, the patch right after a 200
\* get, and no list or create request; a pass that starts unbound makes exactly
\* one list and at most one create request, the create right after a 200 list,
\* and no get or patch request.  No pass makes a create and a patch request.
C37_CallsFollowStartingState ==
  /\ \A i \in 1..Len(log) :
       /\ log[i].op \in RemoteOps => (i > 2 /\ log[2] = Event("GetCredentials", "ok"))
       /\ log[i].op = "PatchInstanceId" => log[i - 1] = Event("GetInstanceId", StatusOK)
       /\ log[i].op = "PostInstances" => log[i - 1] = Event("GetInstances", StatusOK)
  /\ (Returned /\ ~Has("GetCredentials", "ok")) => RemoteCalls = 0
  /\ (Returned /\ Has("GetCredentials", "ok")) =>
       IF start.status.instanceID # 0
         THEN /\ Count("GetInstanceId") = 1
              /\ Count("PatchInstanceId") <= 1
              /\ Count("GetInstances") = 0
              /\ Count("PostInstances") = 0
         ELSE /\ Count("GetInstances") = 1
              /\ Count("PostInstances") <= 1
              /\ Count("GetInstanceId") = 0
              /\ Count("PatchInstanceId") = 0
  /\ ~(Count("PostInstances") > 0 /\ Count("PatchInstanceId") > 0)

\* a completed pass over a bound record: the read of the record, the
\* credentials, one get, one patch request and the status write, in this order
C37_Witness ==
  /\ Written
  /\ start.status.instanceID # 0
  /\ Len(log) = 6
  /\ log[2] = Event("GetCredentials", "ok")
  /\ log[3] = Event("GetInstanceId", StatusOK)
  /\ log[4] = Event("PatchInstanceId", StatusAccepted)
  /\ log[6] = Event("PatchStatus", "ok")

\* the list or the create request of the pass was rejected or failed in transport
ListOrCreateFailed ==
  \/ Has("GetInstances", 0) \/ Has("GetInstances", StatusError)
  \/ Has("PostInstances", 0) \/ Has("PostInstances", StatusError)

\* ---------------------------------------------------------------- C38
\* C38: a pass over an unbound record whose list or create request is rejected
\* or fails in transport ends with an error, with status.instanceID and
\* status.connectionSecret empty, and makes no attempt to write the connection
\* secret; the status it writes differs from the one it read in the conditions
\* and observedGeneration only.
C38_FailedListOrCreateBindsNothing ==
  (Returned /\ ListOrCreateFailed) =>
    /\ start.status.instanceID = 0
    /\ err # nil
    /\ instance.status.instanceID = 0
    /\ instance.status.connectionSecret = nil
    /\ Count("CreateSecret") = 0
    /\ ~\E i \in 1..Len(log) : log[i].op \in {"GetSecret", "DeleteSecret", "CreateSecret"}
    /\ Written =>
         /\ \A f \in StatusFields \ {"conditions", "observedGeneration"} :
              object.status[f] = start.status[f]
         /\ object.status.instanceID = 0
         /\ object.status.connectionSecret = nil
         /\ object.status.observedGeneration = start.generation
         /\ FailedWith(object.status.conditions, err)

\* a written failure of a rejected create request: CreatingInstance and the
\* failure in the conditions, no id, no name, no secret
C38_Witness ==
  /\ Written
  /\ Has("PostInstances", StatusError)
  /\ object.status.instanceID = 0
  /\ object.status.connectionSecret = nil
  /\ HasCond(object.status.conditions, ConditionReconciling, "True", "CreatingInstance")
  /\ FailedWith(object.status.conditions,
                <<"failed to create the instance, request failed with code", StatusError, Body>>)
  /\ secrets[<<Name, "-connection">>] = Absent

\* the get of the pass was answered 200 with status running and with the
\* memory, vectorOptimized and graphAnalyticsPlugin of the spec
InSync ==
  /\ Has("GetInstanceId", StatusOK)
  /\ auraInstance.status = "running"
  /\ start.spec.memory = auraInstance.memory
  /\ start.spec.vectorOptimized = auraInstance.vectorOptimized
  /\ start.spec.graphAnalyticsPlugin = auraInstance.graphAnalyticsPlugin

\* the status a pass over a running instance without drift writes
Settled(obj) ==
  /\ obj.status.instanceStatus = "running"
  /\ obj.status.observedGeneration = obj.generation
  /\ NumCond(obj.status.conditions, ConditionReconciling) = 0
  /\ \E i \in 1..Len(obj.status.conditions) :
       obj.status.conditions[i] =
         [type |-> ConditionReady, status |-> "True", reason |-> "InstanceRunning",
          message |-> <<"Instance is running">>, observedGeneration |-> obj.generation]

\* ---------------------------------------------------------------- C39
\* C39: a pass that gets the instance as running with the memory,
\* vectorOptimized and graphAnalyticsPlugin of the spec issues no patch, ends
\* without error and, when it writes the status, stores Ready=True
\* (InstanceRunning), no Reconciling condition, instanceStatus running and the
\* instanceID it read; when the status it read was already of that shape for
\* the same generation, the status it computes is the status it read, and the
\* stored Ready and Reconciling conditions, instanceID and instanceStatus are
\* the ones it read.
C39_DriftCorrectionConverges ==
  (Returned /\ InSync) =>
    /\ Count("PatchInstanceId") = 0
    /\ err = nil
    /\ Settled(instance)
    /\ instance.status.instanceID = start.status.instanceID
    /\ Written =>
         /\ HasCond(object.status.conditions, ConditionReady, "True", "InstanceRunning")
         /\ NumCond(object.status.conditions, ConditionReady) = 1
         /\ NumCond(object.status.conditions, ConditionReconciling) = 0
         /\ object.status.instanceStatus = "running"
         /\ object.status.instanceID = start.status.instanceID
    /\ Settled(start) =>
         /\ instance.status = start.status
         /\ Written =>
              /\ OwnConditions(object.status.conditions)
                   = OwnConditions(start.status.conditions)
              /\ object.status.instanceID = start.status.instanceID
              /\ object.status.instanceStatus = start.status.instanceStatus

\* the pass after an accepted patch: the status it read holds Ready=True and
\* Reconciling=True (UpdatingInstance), the instance reports the spec, and the
\* status it wrote holds Ready=True alone
C39_Witness ==
  /\ Written
  /\ InSync
  /\ HasCond(start.status.conditions, ConditionReady, "True", "InstanceRunning")
  /\ HasCond(start.status.conditions, ConditionReconciling, "True", "UpdatingInstance")
  /\ Count("PatchInstanceId") = 0
  /\ Settled(object)
  /\ NumCond(object.status.conditions, ConditionReconciling) = 0

\* a further pass over the settled record: it read the settled status and wrote it again
SettledAgain == Written /\ InSync /\ Settled(start) /\ object.status = start.status
====
